---- MODULE Spec2Model ----
(***************************************************************************)
(* State-machine model of PPO/ppo.py: the rollout loop PPO.play, the       *)
(* update PPO.train, the metric episode PPO.evaluate and the per-sample    *)
(* clipped surrogate term built in PPO.__init__.  The experience buffer    *)
(* (utils.experience_replay.PPOBuffer) is imported by ppo.py but its code  *)
(* is not part of the sources at hand; its three operations are modelled   *)
(* from the written specification of the buffer.                           *)
(***************************************************************************)
EXTENDS Integers, Sequences, FiniteSets

\* ------------------------------------------------------------------ bounds
\* Hyper-parameters of PPO.__init__, scaled down for exhaustive checking.
steps_per_epoch == 3
epochs == 2
max_ep_len == 2
train_pi_iters == 2
train_v_iters == 2
\* target_kl = 0.01, in thousandths
target_kl == 10
\* Largest return an evaluation episode accumulates (rewards of 0 go on).
MaxEvalRet == 1
\* Fixed-point denominator of ratio and clip_ratio in the surrogate term.
Scale == 4
\* Largest magnitude of an advantage sample.
MaxAdv == 2

\* ------------------------------------------------------------- domains
States == 0 .. 1
Actions == 0 .. 1
Rewards == 0 .. 1
Thetas == 0 .. 1
\* approx_kl samples (thousandths): 0, the largest value that does not
\* exceed 1.5 * target_kl, and the smallest that does.
KLs == {0, (3 * target_kl) \div 2, (3 * target_kl) \div 2 + 1}
Ratios == 1 .. (2 * Scale + 1)
Clips == 0 .. (Scale - 1)
Advs == (0 - MaxAdv) .. MaxAdv

VARIABLES
    pc,          \* position of the program
    epoch, t,    \* loop indices of PPO.play
    state, reward, done, ep_ret, ep_len,       \* locals of PPO.play
    a, v_t, logp_t,                            \* result of the policy query
    last_val,                                  \* bootstrap passed to finish_path
    buf, adv_valid, ptr, path_start,           \* PPOBuffer
    eval_s, eval_r, eval_reward, eval_result,  \* locals / result of PPO.evaluate
    theta, kl, pi_n, v_n,                      \* parameters and PPO.train
    err,                                       \* exception raised, or "none"
    action_space,                              \* env.action_space
    ratio, adv_ph, clip_ratio, surr, surr_done \* surrogate term and its inputs

playVars == <<pc, epoch, t, state, reward, done, ep_ret, ep_len, a, v_t,
              logp_t, last_val>>
bufVars == <<buf, adv_valid, ptr, path_start>>
evalVars == <<eval_s, eval_r, eval_reward, eval_result>>
trainVars == <<theta, kl, pi_n, v_n>>
lossVars == <<ratio, adv_ph, clip_ratio, surr, surr_done>>
vars == <<playVars, bufVars, evalVars, trainVars, err, action_space, lossVars>>

Min(x, y) == IF x <= y THEN x ELSE y
Max(x, y) == IF x >= y THEN x ELSE y

\* ------------------------------------------------------- the network
\* sess.run(self.v, ...): the value head is a function of the parameters
\* and of the state fed in; it changes only when the parameters change.
Value(th, s) == (th + s) % 2
\* sess.run(self.logp_pi, ...): log-probability of the sampled action.
LogpPi(th, s, act) == 0 - (1 + ((th + s + act) % 2))

\* ------------------------------------------------------------ PPOBuffer
\* Faulty variant: a buffer one slot short of an epoch.
BufCapacityShort == steps_per_epoch - 1
\* PPOBuffer(state_dim, action_dim, self.steps_per_epoch, gamma, lam)
BufCapacity == steps_per_epoch

Transition(s, act, r, v, lp) ==
    [state |-> s, action |-> act, reward |-> r, value |-> v, logp |-> lp]

\* The buffer's arrays are modelled by their logical content: buf is the
\* sequence of the transitions stored since the last get (slots 1 .. ptr);
\* what the arrays hold beyond ptr is never read before it is overwritten.
\* adv_valid[i] says that slot i of the advantage and return arrays was
\* written by finish_path since the last get.

\* store: appends at ptr and increments ptr.
BufStore(s, act, r, v, lp) ==
    /\ buf' = Append(buf, Transition(s, act, r, v, lp))
    /\ ptr' = ptr + 1
    /\ UNCHANGED <<adv_valid, path_start>>

\* finish_path: writes advantages and returns of [path_start, ptr) and
\* sets path_start = ptr.  Which slots are written is recorded; the numbers
\* written (the discounted sums bootstrapped with lv) are not.
BufFinishPath(lv) ==
    /\ adv_valid' = [i \in 1 .. BufCapacity |->
                       IF path_start < i /\ i <= ptr THEN TRUE ELSE adv_valid[i]]
    /\ path_start' = ptr
    /\ UNCHANGED <<buf, ptr>>

\* get: resets both cursors; the buffer is logically empty, and what the
\* advantage and return arrays hold is from now on the previous epoch's.
BufGet ==
    /\ ptr' = 0
    /\ path_start' = 0
    /\ adv_valid' = [i \in 1 .. BufCapacity |-> FALSE]
    /\ buf' = <<>>

\* ------------------------------------------------------------ PPO.play
PlayInit ==
    /\ pc = "query"
    /\ epoch = 0 /\ t = 0
    /\ state \in States
    /\ reward = 0 /\ done = FALSE /\ ep_ret = 0 /\ ep_len = 0
    /\ a = 0 /\ v_t = 0 /\ logp_t = 0 /\ last_val = 0
    /\ buf = <<>>
    /\ adv_valid = [i \in 1 .. BufCapacity |-> FALSE]
    /\ ptr = 0 /\ path_start = 0
    /\ eval_s = 0 /\ eval_r = 0 /\ eval_reward = 0 /\ eval_result = 0
    /\ theta \in Thetas
    /\ kl = 0 /\ pi_n = 0 /\ v_n = 0
    /\ err = "none"

LossIdle ==
    /\ ratio = Scale /\ adv_ph = 0 /\ clip_ratio = 0
    /\ surr = 0 /\ surr_done = FALSE

Init == PlayInit /\ action_space = Actions /\ LossIdle

\* Faulty variant: the inner loop runs one iteration too many.
InnerLoopOneMore(tt) == tt < steps_per_epoch
\* for t in range(self.steps_per_epoch)
InnerLoopContinues(tt) == tt + 1 < steps_per_epoch
\* Faulty variant: the outer loop runs one epoch too many.
OuterLoopOneMore(e) == e < epochs
\* for epoch in range(self.epochs)
OuterLoopContinues(e) == e + 1 < epochs

\* End of one iteration of the inner loop: next t, or self.train().
NextIteration ==
    IF InnerLoopContinues(t)
    THEN t' = t + 1 /\ pc' = "query"
    ELSE t' = t /\ pc' = "train"

\* a, v_t, logp_t = sess.run([self.pi, self.v, self.logp_pi], {state_ph: state})
Query ==
    /\ pc = "query"
    /\ \E act \in action_space :
         /\ a' = act
         /\ logp_t' = LogpPi(theta, state, act)
    /\ v_t' = Value(theta, state)
    /\ pc' = "store"
    /\ UNCHANGED <<epoch, t, state, reward, done, ep_ret, ep_len, last_val>>
    /\ UNCHANGED <<bufVars, evalVars, trainVars, err, action_space, lossVars>>

\* self.buf.store(state, a, reward, v_t, logp_t)
Store ==
    /\ pc = "store"
    /\ IF ptr = BufCapacity
       THEN /\ err' = "BufferFull"
            /\ pc' = "crashed"
            /\ UNCHANGED bufVars
       ELSE /\ BufStore(state, a, reward, v_t, logp_t)
            /\ pc' = "step"
            /\ err' = err
    /\ UNCHANGED <<epoch, t, state, reward, done, ep_ret, ep_len, a, v_t,
                   logp_t, last_val>>
    /\ UNCHANGED <<evalVars, trainVars, action_space, lossVars>>

\* Faulty variant: the length limit is forgotten.
TerminalDoneOnly(d, len) == d
\* terminal = done or (ep_len == self.max_ep_len)
Terminal(d, len) == d \/ (len = max_ep_len)
\* Faulty variant: the path is left open at the end of the epoch.
EndOfPathTerminalOnly(term, tt) == term
\* if terminal or (t == self.steps_per_epoch - 1)
EndOfPath(term, tt) == term \/ (tt = steps_per_epoch - 1)

\* state, reward, done, _ = env.step(a[0]); ep_ret += reward; ep_len += 1;
\* then the test that closes the path.
EnvStep ==
    /\ pc = "step"
    /\ \E ns \in States, r \in Rewards, d \in BOOLEAN :
         /\ state' = ns
         /\ reward' = r
         /\ done' = d
         /\ ep_ret' = ep_ret + r
         /\ ep_len' = ep_len + 1
         /\ IF EndOfPath(Terminal(d, ep_len + 1), t)
            THEN pc' = "finish" /\ t' = t
            ELSE NextIteration
    /\ UNCHANGED <<epoch, a, v_t, logp_t, last_val>>
    /\ UNCHANGED <<bufVars, evalVars, trainVars, err, action_space, lossVars>>

\* last_val = reward if done else sess.run(self.v, {state_ph: state})
BootstrapValue(d, r, s) == IF d THEN r ELSE Value(theta, s)

\* last_val = ...; self.buf.finish_path(last_val); env.close()
FinishPath ==
    /\ pc = "finish"
    /\ last_val' = BootstrapValue(done, reward, state)
    /\ BufFinishPath(BootstrapValue(done, reward, state))
    /\ pc' = "evaluate"
    /\ UNCHANGED <<epoch, t, state, reward, done, ep_ret, ep_len, a, v_t, logp_t>>
    /\ UNCHANGED <<evalVars, trainVars, err, action_space, lossVars>>

\* -------------------------------------------------------- PPO.evaluate
\* env = self.create_env(); s = env.reset(); reward = 0
\* (a second environment and locals of its own)
EvalBegin ==
    /\ pc = "evaluate"
    /\ eval_s' \in States
    /\ eval_reward' = 0
    /\ pc' = "eval_loop"
    /\ UNCHANGED <<eval_r, eval_result>>
    /\ UNCHANGED <<epoch, t, state, reward, done, ep_ret, ep_len, a, v_t,
                   logp_t, last_val>>
    /\ UNCHANGED <<bufVars, trainVars, err, action_space, lossVars>>

\* Faulty variant: evaluate accumulates into the reward of the rollout
\* (as it would with one shared `reward`), not into a local of its own.
EvalStepSharedReward ==
    /\ pc = "eval_loop"
    /\ \E ns \in States, r \in Rewards, d \in BOOLEAN :
         /\ eval_reward + r <= MaxEvalRet
         /\ eval_r' = r
         /\ eval_reward' = eval_reward + r
         /\ reward' = r
         /\ IF d
            THEN pc' = "reset" /\ eval_s' = 0 /\ eval_result' = eval_reward + r
            ELSE pc' = "eval_loop" /\ eval_s' = ns /\ eval_result' = eval_result
    /\ UNCHANGED <<epoch, t, state, done, ep_ret, ep_len, a, v_t, logp_t,
                   last_val>>
    /\ UNCHANGED <<bufVars, trainVars, err, action_space, lossVars>>

\* One pass of `while True`: a = sess.run([self.pi]); next_s, r, done, _ =
\* env.step(a[0][0]); reward += r; s = next_s; if done: break; and after the
\* loop env.close(); return reward (the environment and its state are gone).
EvalStep ==
    /\ pc = "eval_loop"
    /\ \E ns \in States, r \in Rewards, d \in BOOLEAN :
         /\ eval_reward + r <= MaxEvalRet
         /\ eval_r' = r
         /\ eval_reward' = eval_reward + r
         /\ IF d
            THEN pc' = "reset" /\ eval_s' = 0 /\ eval_result' = eval_reward + r
            ELSE pc' = "eval_loop" /\ eval_s' = ns /\ eval_result' = eval_result
    /\ UNCHANGED <<epoch, t, state, reward, done, ep_ret, ep_len, a, v_t,
                   logp_t, last_val>>
    /\ UNCHANGED <<bufVars, trainVars, err, action_space, lossVars>>

\* The two summaries are handed to the writer (the frame of evaluate and
\* its result are gone), then
\* state, reward, done, ep_ret, ep_len = env.reset(), 0, False, 0, 0
Reset ==
    /\ pc = "reset"
    /\ state' \in States
    /\ reward' = 0
    /\ done' = FALSE
    /\ ep_ret' = 0
    /\ ep_len' = 0
    /\ NextIteration
    /\ eval_s' = 0 /\ eval_r' = 0 /\ eval_reward' = 0 /\ eval_result' = 0
    /\ UNCHANGED <<epoch, a, v_t, logp_t, last_val>>
    /\ UNCHANGED <<bufVars, trainVars, err, action_space, lossVars>>

\* ----------------------------------------------------------- PPO.train
\* state_buf, act_buf, adv_buf, ret_buf, logp_buf = self.buf.get()
TrainGet ==
    /\ pc = "train"
    /\ IF ptr # BufCapacity
       THEN /\ err' = "BufferNotFull"
            /\ pc' = "crashed"
            /\ UNCHANGED <<bufVars, pi_n, v_n>>
       ELSE /\ BufGet
            /\ pi_n' = 0
            /\ v_n' = 0
            /\ pc' = "train_pi"
            /\ err' = err
    /\ UNCHANGED <<epoch, t, state, reward, done, ep_ret, ep_len, a, v_t,
                   logp_t, last_val>>
    /\ UNCHANGED <<evalVars, theta, kl, action_space, lossVars>>

\* Faulty variant: the loop also stops at the threshold itself.
KlReaches(k) == 2 * k >= 3 * target_kl
\* if kl > 1.5 * self.target_kl: break   (kl and target_kl in thousandths)
KlExceeds(k) == 2 * k > 3 * target_kl
\* for i in range(self.train_pi_iters)
PiLoopContinues(n) == n < train_pi_iters
\* for _ in range(self.train_v_iters)
VLoopContinues(n) == n < train_v_iters

\* One pass of the policy loop: _, kl = sess.run([self.train_pi,
\* self.approx_kl]); kl = np.mean(kl); if kl > 1.5 * target_kl: break
TrainPi ==
    /\ pc = "train_pi"
    /\ theta' \in Thetas
    /\ kl' \in KLs
    /\ pi_n' = pi_n + 1
    /\ pc' = IF KlExceeds(kl') \/ ~PiLoopContinues(pi_n + 1)
             THEN "train_v" ELSE "train_pi"
    /\ UNCHANGED <<v_n, err>>
    /\ UNCHANGED <<epoch, t, state, reward, done, ep_ret, ep_len, a, v_t,
                   logp_t, last_val>>
    /\ UNCHANGED <<bufVars, evalVars, action_space, lossVars>>

\* One pass of the value loop: sess.run(self.train_v); after the last one
\* train returns (its locals are gone) and the outer loop of play goes on
\* or ends.
TrainV ==
    /\ pc = "train_v"
    /\ theta' \in Thetas
    /\ IF VLoopContinues(v_n + 1)
       THEN /\ pc' = "train_v"
            /\ v_n' = v_n + 1
            /\ UNCHANGED <<epoch, t, kl, pi_n>>
       ELSE /\ epoch' = epoch + 1
            /\ t' = 0
            /\ pc' = IF OuterLoopContinues(epoch) THEN "query" ELSE "done"
            /\ kl' = 0 /\ pi_n' = 0 /\ v_n' = 0
    /\ err' = err
    /\ UNCHANGED <<state, reward, done, ep_ret, ep_len, a, v_t, logp_t,
                   last_val>>
    /\ UNCHANGED <<bufVars, evalVars, action_space, lossVars>>

Next ==
    \/ Query
    \/ Store
    \/ EnvStep
    \/ FinishPath
    \/ EvalBegin
    \/ EvalStep
    \/ Reset
    \/ TrainGet
    \/ TrainPi
    \/ TrainV

Spec == Init /\ [][Next]_vars

\* The program is sequential: whenever it has a next step it takes one.
\* Which action is sampled has no part in the control flow, so progress is
\* checked with an environment that has one action.
LiveInit == PlayInit /\ action_space = {0} /\ LossIdle

LiveSpec == LiveInit /\ [][Next]_vars /\ WF_vars(Next)

\* ------------------------------------------- the clipped surrogate term
\* ratio and clip_ratio are counted in units of 1/Scale, so 1.0 is Scale
\* and every term below is the real term times Scale.

\* Faulty variant: the sign of the advantage is not looked at.
MinAdvUpperOnly(adv, c) == (Scale + c) * adv
\* min_adv = tf.where(adv_ph > 0, (1 + clip_ratio) * adv_ph,
\*                                (1 - clip_ratio) * adv_ph)
MinAdv(adv, c) == IF adv > 0 THEN (Scale + c) * adv ELSE (Scale - c) * adv

\* tf.minimum(ratio * self.adv_ph, min_adv), one sample of it
SurrogateTerm(r, adv, c) == Min(r * adv, MinAdv(adv, c))

\* Inputs of one sample: ratio > 0, any advantage, clip_ratio in [0, 1).
LossInit ==
    /\ PlayInit
    /\ action_space = Actions
    /\ ratio \in Ratios
    /\ adv_ph \in Advs
    /\ clip_ratio \in Clips
    /\ surr = 0
    /\ surr_done = FALSE

ComputeSurrogate ==
    /\ ~surr_done
    /\ surr' = SurrogateTerm(ratio, adv_ph, clip_ratio)
    /\ surr_done' = TRUE
    /\ UNCHANGED <<ratio, adv_ph, clip_ratio>>
    /\ UNCHANGED <<playVars, bufVars, evalVars, trainVars, err, action_space>>

LossNext == ComputeSurrogate

LossSpec == LossInit /\ [][LossNext]_vars

\* ================================================================ claims

\* The positions of one closing of a path: from finish_path to the reset.
Closing == {"finish", "evaluate", "eval_loop", "reset"}
\* The positions of the rollout phase of an epoch.
Rollout == {"query", "store", "step"} \cup Closing

\* A step of the environment in iteration t: slot t of the buffer holds the
\* state fed to the policy, the action handed to env.step and the reward
\* that env.step returns.
StepStoresItsTransition ==
    pc = "step" =>
        /\ buf'[t + 1].state = state
        /\ buf'[t + 1].action = a
        /\ buf'[t + 1].reward = reward'

\* C1: once the environment has been stepped in a rollout step, the
\* transition the buffer holds for that step carries the state the policy
\* was queried at, the action that was executed and the reward the
\* environment returned for that same action.
C1_StoredTransitionOfStep == [][StepStoresItsTransition]_vars

\* C2: the bootstrap value passed to finish_path is 0 when the step just
\* taken returned done, and the value estimate at the next state otherwise.
C2_BootstrapZeroWhenDone ==
    pc = "evaluate" =>
        last_val = (IF done THEN 0 ELSE Value(theta, state))

\* After a rollout step the path is closed exactly under the three
\* conditions of the claim.
FinishIffEndOfPath ==
    pc = "step" =>
        ((pc' = "finish") <=>
            (done' \/ ep_len' = max_ep_len \/ t = steps_per_epoch - 1))

\* finish_path is reached from a rollout step only.
FinishOnlyAfterStep == (pc' = "finish" /\ pc # "finish") => pc = "step"

\* The closing of a path is left through the reset only, with the episode
\* counters, the pending reward and the done flag cleared.
ResetAfterFinish ==
    (pc \in Closing /\ pc' \notin Closing) =>
        /\ pc = "reset"
        /\ ep_ret' = 0 /\ ep_len' = 0 /\ reward' = 0 /\ done' = FALSE

\* C3: finish_path is called after a rollout step exactly when the step
\* returned done, or the episode length reached max_ep_len, or the step is
\* the last of the epoch; it is called at no other place; and the rollout
\* goes on after it only through the reset, with the environment reset and
\* the episode return and length back at 0.
C3_FinishPathIffEndOfPath ==
    /\ [][FinishIffEndOfPath]_vars
    /\ [][FinishOnlyAfterStep]_vars
    /\ [][ResetAfterFinish]_vars

\* C3 witness: a path was closed in the middle of an epoch and the next
\* rollout step starts with the counters at 0.
C3_Witness ==
    /\ pc = "query" /\ t > 0 /\ t < steps_per_epoch
    /\ path_start = ptr /\ ptr > 0
    /\ ep_ret = 0 /\ ep_len = 0

\* C4: store is called exactly once per step of the epoch, never on a full
\* buffer, and get is called on a full buffer only: no BufferFull and no
\* BufferNotFull is raised.
C4_ExactlyStepsPerEpochStores ==
    /\ (pc = "store" => ptr = t /\ ptr < BufCapacity)
    /\ (pc = "train" => ptr = steps_per_epoch /\ ptr = BufCapacity)
    /\ err = "none"
    /\ pc # "crashed"

\* C4 witness: the get of the second epoch is about to be made on a buffer
\* that the epoch's stores have filled.
C4_Witness == pc = "train" /\ epoch = 1 /\ Len(buf) = steps_per_epoch

\* C5: the cursors satisfy 0 <= path_start <= ptr <= capacity in every
\* state, both are 0 right after every get, and the rollout stored after a
\* get raises no error.
C5_CursorsInRange ==
    /\ 0 <= path_start /\ path_start <= ptr /\ ptr <= steps_per_epoch
    /\ (pc = "train_pi" /\ pi_n = 0 => ptr = 0 /\ path_start = 0)
    /\ err = "none"

\* C5 witness: after a get, a whole fresh rollout has been stored again.
C5_Witness == epoch >= 1 /\ ptr = steps_per_epoch /\ path_start = ptr

\* A pass of the policy loop is one gradient step; the loop is left for
\* the value loop exactly when that step's kl exceeds 1.5 * target_kl or it
\* was the last of train_pi_iters.
PiLoopRule ==
    pc = "train_pi" =>
        /\ pi_n' = pi_n + 1
        /\ (pc' = "train_v") <=>
               (2 * kl' > 3 * target_kl \/ pi_n' = train_pi_iters)
        /\ pc' \in {"train_pi", "train_v"}
        /\ v_n' = 0

\* A pass of the value loop is one gradient step; the loop is left exactly
\* with the step that makes train_v_iters of them.
VLoopRule ==
    pc = "train_v" =>
        IF v_n + 1 = train_v_iters
        THEN pc' \in {"query", "done"}
        ELSE pc' = "train_v" /\ v_n' = v_n + 1

\* C6: the policy loop makes at most train_pi_iters gradient steps and
\* stops right after the first step whose approx_kl exceeds
\* 1.5 * target_kl, without an error; the value loop then makes exactly
\* train_v_iters gradient steps, whether or not the policy loop stopped
\* early.
C6_KlEarlyStop ==
    /\ [](pi_n <= train_pi_iters /\ v_n < train_v_iters)
    /\ [](pc = "train_pi" /\ pi_n > 0 => ~(2 * kl > 3 * target_kl))
    /\ [][PiLoopRule]_vars
    /\ [][VLoopRule]_vars

\* C6 witness: the policy loop stopped early after its first step and the
\* value loop is about to make its last step.
C6_Witness ==
    /\ pc = "train_v" /\ pi_n = 1 /\ pi_n < train_pi_iters
    /\ 2 * kl > 3 * target_kl
    /\ v_n = train_v_iters - 1

\* clip(ratio, 1 - clip_ratio, 1 + clip_ratio)
ClipByValue(x, lo, hi) == Max(lo, Min(x, hi))

\* C7: the surrogate term of the code equals
\* min(ratio * adv, clip(ratio, 1 - clip_ratio, 1 + clip_ratio) * adv); for
\* adv > 0 and ratio > 1 + clip_ratio it is (1 + clip_ratio) * adv, and for
\* adv < 0 and ratio < 1 - clip_ratio it is (1 - clip_ratio) * adv.
C7_SurrogateEqualsClipped ==
    surr_done =>
        /\ surr = Min(ratio * adv_ph,
                      ClipByValue(ratio, Scale - clip_ratio, Scale + clip_ratio)
                          * adv_ph)
        /\ (adv_ph > 0 /\ ratio > Scale + clip_ratio =>
                surr = (Scale + clip_ratio) * adv_ph)
        /\ (adv_ph < 0 /\ ratio < Scale - clip_ratio =>
                surr = (Scale - clip_ratio) * adv_ph)

\* C7 witness: a negative advantage with the ratio below 1 - clip_ratio.
C7_Witness ==
    /\ surr_done /\ adv_ph < 0 /\ clip_ratio > 0
    /\ ratio < Scale - clip_ratio

\* A step of evaluate: nothing of the buffer, the parameters or the rollout
\* changes; the sum starts at 0, grows by the reward of the step, and is
\* what is returned.
EvaluateRule ==
    pc \in {"evaluate", "eval_loop"} =>
        /\ UNCHANGED <<buf, adv_valid, ptr, path_start>>
        /\ UNCHANGED <<theta, state, reward, done, ep_ret, ep_len, epoch, t>>
        /\ (pc = "evaluate" => eval_reward' = 0)
        /\ (pc = "eval_loop" => eval_reward' = eval_reward + eval_r')
        /\ (pc' = "reset" => eval_result' = eval_reward')

\* C8: while evaluate runs, the buffer (contents, ptr, path_start), the
\* parameters and the rollout's state, pending reward, done flag, episode
\* counters and loop indices stay as they are; its only result is the sum
\* of the rewards of the one episode it ran.
C8_EvaluateFrame == [][EvaluateRule]_vars

\* C8 witness: evaluate has returned a nonzero sum while a transition and
\* a nonzero pending reward of the rollout are in place.
C8_Witness ==
    /\ pc = "reset" /\ eval_result > 0
    /\ ptr > 0 /\ reward > 0 /\ ep_ret > 0

\* C9 as stated: with every single call returning, a started epoch always
\* reaches its update, and play ends, after exactly `epochs` updates.
C9_EpochAlwaysCompletes ==
    /\ (pc \in Rollout) ~> (pc = "train")
    /\ <>(pc = "done")
    /\ [](pc = "done" => epoch = epochs)
    /\ [](pc # "crashed")

\* Every evaluation episode ends: its environment at some point says done.
EvalEpisodesEnd == []<>(pc # "eval_loop")

\* C9, amended: if moreover every evaluation episode ends, a started epoch
\* always reaches its update, and play ends, after exactly `epochs`
\* updates and in no other way.
C9_EpochCompletesIfEvalEnds ==
    EvalEpisodesEnd => C9_EpochAlwaysCompletes

\* C9 witness: play has ended after `epochs` updates.
C9_Witness == pc = "done" /\ epoch = epochs /\ ptr = 0

\* C10: when train calls get, path_start = ptr = capacity and every slot
\* of the advantage and return arrays was written by a finish_path of this
\* epoch.
C10_GetSeesClosedPaths ==
    pc = "train" =>
        /\ path_start = ptr
        /\ ptr = steps_per_epoch
        /\ \A i \in 1 .. steps_per_epoch : adv_valid[i]

\* C10 witness: the get of a later epoch, with all slots written anew.
C10_Witness ==
    /\ pc = "train" /\ epoch >= 1 /\ path_start = steps_per_epoch
    /\ \A i \in 1 .. steps_per_epoch : adv_valid[i]
====
